---- MODULE Spec2Model ----
(***************************************************************************)
(* Protocol session of volcengine-podcast.py: generate_podcast drives one  *)
(* logical synthesis run over up to retry_num connections, accumulating   *)
(* per-round audio and resuming after a failed round.                      *)
(*                                                                         *)
(* The remote service is the environment.  Under Spec it may deliver any   *)
(* message at any receive (bounded by MaxMsgs); under SpecResume it is a   *)
(* service that streams rounds 1..NRounds in order, resumes after the      *)
(* cursor it was sent, and may fail any round.                             *)
(***************************************************************************)
EXTENDS Integers, Sequences, FiniteSets, TLC

\* ---- bounds of the model ----
MaxMsgs == 6          \* messages delivered in streaming loops per run (Spec)
MaxAudio == 2         \* audio messages delivered per run (Spec)
MaxLines == 3         \* lines of a dialogue script (SpecParse)
MaxTurns == 2         \* turns given to build_nlp_texts (SpecSegment)
NRounds == 5          \* rounds of the dialogue streamed under SpecResume

\* ---- program constants ----
RetryBudget == 5      \* retry_num = 5
InitCursor == -1      \* last_round_id = -1
InitRound == 0        \* current_round = 0
HeadMusic == -1       \* current_round == -1: lead-in music round
TailMusic == 9999     \* current_round == 9999: lead-out music round
NoTask == 0
MaxTokenLen == 10     \* {1,10} of the fourth marker alternative
SegmentLimit == 300   \* a turn of at most this length is one segment
SoftLimit == 280      \* max_len passed to _split_text
TotalLimit == 10000   \* total above which the list is trimmed
TrimLimit == 9800     \* total kept by the trimming           \* task_id = "" (session ids are 1, 2, ...)

NoRetry == [retry_task_id |-> NoTask, last_finished_round_id |-> InitCursor, present |-> FALSE]

RoundIds == {HeadMusic, InitRound, 1, 2, TailMusic}

VARIABLES
    pc,             \* position of generate_podcast
    retry_num,      \* remaining budget
    is_round_end,   \* is_round_complete of the SessionContext
    last_round_id,  \* resumption cursor
    current_round,  \* id announced by the latest round-start
    round_count,    \* number of round-starts received
    task_id,        \* task id of the run (NoTask until the first session)
    session_id,     \* session id of the current attempt
    retry_info,     \* req_params["retry_info"] (NoRetry when the key is absent)
    podcast_audio,  \* committed buffer
    round_audio,    \* pending buffer of the current connection
    ws,             \* state of each transport opened so far: "open" / "closed"
    sent,           \* client messages sent on the current connection, in order
    sessionStarts,  \* payload of every session-start sent in the run
    outFile,        \* content of the output file, NoFile when none was written
    result,         \* "none" while running, then "ok" (True) or "fail" (False)
    nRecv,          \* messages received in streaming loops so far
    nAudio,         \* audio messages received so far
    connRecv,       \* messages received in the loop of the current connection
    lastMsg,        \* the message handled by the latest loop iteration
    loopExit,       \* how the streaming loop of the current connection ended
    errRounds,      \* current_round at every round-end error received
    nOk,            \* number of successful round-ends received
    ordered,        \* the round-start ids so far are >= InitCursor and never decreased
    orphanOk,       \* a successful round-end arrived before any round-start
    paired,         \* every round-end so far closed a round opened on its connection
    roundOpen,      \* a round-start was received on this connection, no round-end since
    roundBytes,     \* audio received for the open round (since its round-start)
    discarded,      \* audio chunks that were pending when a streaming loop ended
    connectIds,     \* X-Api-Connect-Id header passed to each websockets.connect
    args,           \* command line and environment of main
    turns,          \* result of parse_podcast_script in main
    nlp_texts       \* result of build_nlp_texts in main

vars == <<pc, retry_num, is_round_end, last_round_id, current_round, round_count,
          task_id, session_id, retry_info, podcast_audio, round_audio, ws, sent,
          sessionStarts, outFile, result, nRecv, nAudio, connRecv, lastMsg, loopExit,
          errRounds, nOk, ordered, orphanOk, paired, roundOpen, roundBytes,
          discarded, connectIds, args, turns, nlp_texts>>

ctx == <<retry_num, is_round_end, last_round_id, current_round, round_count, task_id>>
conn == <<session_id, retry_info, ws, sent, sessionStarts>>
bufs == <<podcast_audio, round_audio>>
cli == <<args, turns, nlp_texts>>
hist == <<nRecv, nAudio, connRecv, lastMsg, loopExit, errRounds, nOk, ordered,
          orphanOk, paired, roundOpen, roundBytes, discarded>>

\* ---- messages of the service ----
Msg(t, e, r, err, p) ==
    [type |-> t, event |-> e, round_id |-> r, is_error |-> err, payload |-> p]
AudioMsg(p) == Msg("AudioOnlyServer", "PodcastRoundResponse", InitRound, FALSE, p)
ErrorMsg == Msg("Error", "Other", InitRound, FALSE, <<>>)
RoundStartMsg(r) == Msg("FullServerResponse", "PodcastRoundStart", r, FALSE, <<>>)
RoundEndMsg(err) == Msg("FullServerResponse", "PodcastRoundEnd", InitRound, err, <<>>)
EventMsg(e) == Msg("FullServerResponse", e, InitRound, FALSE, <<>>)
NoMsg == Msg("none", "none", InitRound, FALSE, <<>>)

Chunk(tag, n) == [round |-> tag, seq |-> n]

\* outFile while no file exists (no audio chunk has seq 0)
NoFile == <<Chunk(0, 0)>>

\* ---- text: a string is a sequence of characters ----
\* Characters outside ASCII are written by name: "jia" and "yi" are the reserved
\* CJK markers, "zhu" "chi" "ren" the three characters of the host title,
\* "fwcolon" the full-width colon, "lbracket" and "rbracket" the CJK brackets,
\* "nl" the line feed.

Whitespace == {" ", "nl"}
Colons == {":", "fwcolon"}
MarkerTrim == {"*", " "}

Least(S) == CHOOSE x \in S : \A y \in S : x <= y

RECURSIVE LStrip(_, _)
LStrip(s, cs) ==
    IF s # <<>> /\ Head(s) \in cs THEN LStrip(Tail(s), cs) ELSE s

RECURSIVE RStrip(_, _)
RStrip(s, cs) ==
    IF s # <<>> /\ s[Len(s)] \in cs THEN RStrip(SubSeq(s, 1, Len(s) - 1), cs) ELSE s

\* str.strip(chars)
Strip(s, cs) == RStrip(LStrip(s, cs), cs)

\* str.split('\n')
RECURSIVE Split(_)
Split(s) ==
    LET nls == {i \in 1..Len(s) : s[i] = "nl"}
    IN  IF nls = {} THEN <<s>>
        ELSE <<SubSeq(s, 1, Least(nls) - 1)>> \o Split(SubSeq(s, Least(nls) + 1, Len(s)))

\* ''.join(list)
RECURSIVE Join(_)
Join(list) == IF list = <<>> THEN <<>> ELSE Head(list) \o Join(Tail(list))

UpperChar(c) ==
    CASE c = "a" -> "A"
      [] c = "b" -> "B"
      [] c = "x" -> "X"
      [] c = "y" -> "Y"
      [] OTHER -> c

\* str.upper()
Upper(s) == [i \in 1..Len(s) |-> UpperChar(s[i])]

\* ---- parse_podcast_script: lines 60-102 ----

\* \s* from position i: the first position that is not whitespace
SkipWs(line, i) ==
    Least({j \in i..(Len(line) + 1) :
              /\ j = Len(line) + 1 \/ line[j] \notin Whitespace
              /\ \A k \in i..(j - 1) : line[k] \in Whitespace})

\* \s*[:：] from position i: the position of the colon, 0 if there is none
ColonAt(line, i) ==
    LET j == SkipWs(line, i)
    IN  IF j <= Len(line) /\ line[j] \in Colons THEN j ELSE 0

NoMatch == [ok |-> FALSE, group |-> <<>>, end |-> 0]
Matched(g, e) == [ok |-> TRUE, group |-> g, end |-> e]

\* ([AB])\s*[:：]
Alt1(line) ==
    IF Len(line) >= 1 /\ line[1] \in {"A", "B"} /\ ColonAt(line, 2) # 0
    THEN Matched(<<line[1]>>, ColonAt(line, 2))
    ELSE NoMatch

\* 【([^】]+)】
Alt2(line) ==
    LET rbs == {j \in 2..Len(line) : line[j] = "rbracket"}
    IN  IF Len(line) >= 1 /\ line[1] = "lbracket" /\ rbs # {} /\ Least(rbs) >= 3
        THEN Matched(SubSeq(line, 2, Least(rbs) - 1), Least(rbs))
        ELSE NoMatch

\* (\*\*[^*]+\*\*)\s*[:：]
Alt3(line) ==
    LET stars == {j \in 3..Len(line) : line[j] = "*"}
    IN  IF /\ Len(line) >= 2 /\ line[1] = "*" /\ line[2] = "*"
           /\ stars # {} /\ Least(stars) >= 4
           /\ Least(stars) + 1 <= Len(line) /\ line[Least(stars) + 1] = "*"
           /\ ColonAt(line, Least(stars) + 2) # 0
        THEN Matched(SubSeq(line, 1, Least(stars) + 1), ColonAt(line, Least(stars) + 2))
        ELSE NoMatch

\* ([^\s:：]{1,10})\s*[:：]
Alt4(line) ==
    LET n == Least({j \in 0..Len(line) :
                       /\ j = Len(line) \/ line[j + 1] \in Whitespace \cup Colons
                       /\ \A k \in 1..j : line[k] \notin Whitespace \cup Colons})
    IN  IF n >= 1 /\ n <= MaxTokenLen /\ ColonAt(line, n + 1) # 0
        THEN Matched(SubSeq(line, 1, n), ColonAt(line, n + 1))
        ELSE NoMatch

\* line 66, pattern.match(line): the first alternative that matches; group 5
\* is what follows the marker and the blanks after it
Match(line) ==
    LET m == IF Alt1(line).ok THEN Alt1(line)
             ELSE IF Alt2(line).ok THEN Alt2(line)
             ELSE IF Alt3(line).ok THEN Alt3(line)
             ELSE Alt4(line)
    IN  [ok |-> m.ok, group |-> m.group,
         rest |-> IF m.ok THEN SubSeq(line, SkipWs(line, m.end + 1), Len(line))
                  ELSE <<>>]

None == "None"
ReservedA == {<<"A">>, <<"zhu", "chi", "ren", "A">>, <<"jia">>}
ReservedB == {<<"B">>, <<"zhu", "chi", "ren", "B">>, <<"yi">>}

\* variant: a new name is bound to the first voice whatever was bound before
BindSpeakerFirstVoice(raw, speaker_map, speaker_a, speaker_b) ==
    IF Upper(raw) \in ReservedA
    THEN [speaker |-> speaker_a, speaker_map |-> speaker_map]
    ELSE IF Upper(raw) \in ReservedB
    THEN [speaker |-> speaker_b, speaker_map |-> speaker_map]
    ELSE IF raw \in DOMAIN speaker_map
    THEN [speaker |-> speaker_map[raw], speaker_map |-> speaker_map]
    ELSE [speaker |-> speaker_a, speaker_map |-> (raw :> speaker_a) @@ speaker_map]

\* lines 84-91: the voice of a marker
BindSpeaker(raw, speaker_map, speaker_a, speaker_b) ==
    IF Upper(raw) \in ReservedA
    THEN [speaker |-> speaker_a, speaker_map |-> speaker_map]
    ELSE IF Upper(raw) \in ReservedB
    THEN [speaker |-> speaker_b, speaker_map |-> speaker_map]
    ELSE IF raw \in DOMAIN speaker_map
    THEN [speaker |-> speaker_map[raw], speaker_map |-> speaker_map]
    ELSE LET v == IF DOMAIN speaker_map = {} THEN speaker_a ELSE speaker_b
         IN  [speaker |-> v, speaker_map |-> (raw :> v) @@ speaker_map]

\* lines 80-81 and 100-101: a turn is emitted only if it has a speaker and text
Flush(st) ==
    IF st.current_speaker # None /\ st.current_text # <<>>
    THEN Append(st.turns, [speaker |-> st.current_speaker, text |-> Join(st.current_text)])
    ELSE st.turns

\* lines 73-98: one iteration of the loop over the lines
ParseLine(st, l, speaker_a, speaker_b) ==
    LET line == Strip(l, Whitespace)
        m == Match(line)
        b == BindSpeaker(Strip(m.group, MarkerTrim), st.speaker_map, speaker_a, speaker_b)
        content == Strip(m.rest, Whitespace)
    IN  IF line = <<>> THEN st
        ELSE IF m.ok
        THEN [turns |-> Flush(st),
              speaker_map |-> b.speaker_map,
              current_speaker |-> b.speaker,
              current_text |-> IF content # <<>> THEN <<content>> ELSE <<>>]
        ELSE IF st.current_speaker # None
        THEN [st EXCEPT !.current_text = Append(@, line)]
        ELSE st

RECURSIVE ParseLines(_, _, _, _)
ParseLines(st, lines, speaker_a, speaker_b) ==
    IF lines = <<>> THEN st
    ELSE ParseLines(ParseLine(st, Head(lines), speaker_a, speaker_b), Tail(lines),
                    speaker_a, speaker_b)

parse_podcast_script(text, speaker_a, speaker_b) ==
    Flush(ParseLines([turns |-> <<>>, speaker_map |-> <<>>,
                      current_speaker |-> None, current_text |-> <<>>],
                     Split(Strip(text, Whitespace)), speaker_a, speaker_b))

\* ---- build_nlp_texts and _split_text: lines 105-145 ----
\* "period", "excl" and "quest" are the CJK full stop, exclamation mark and
\* question mark.

SentenceEnds == {"period", "excl", "quest", "!", "?", "nl"}

\* variant: the separators are not kept as pieces
RECURSIVE ReSplitNoCapture(_)
ReSplitNoCapture(s) ==
    LET ps == {i \in 1..Len(s) : s[i] \in SentenceEnds}
    IN  IF ps = {} THEN <<s>>
        ELSE <<SubSeq(s, 1, Least(ps) - 1)>>
             \o ReSplitNoCapture(SubSeq(s, Least(ps) + 1, Len(s)))

\* line 137, re.split with a capturing group: the texts between the
\* separators, and each separator as a piece of its own
RECURSIVE ReSplit(_)
ReSplit(s) ==
    LET ps == {i \in 1..Len(s) : s[i] \in SentenceEnds}
    IN  IF ps = {} THEN <<s>>
        ELSE <<SubSeq(s, 1, Least(ps) - 1), <<s[Least(ps)]>>>>
             \o ReSplit(SubSeq(s, Least(ps) + 1, Len(s)))

\* lines 137-142: the loop over the pieces
RECURSIVE Pack(_, _, _, _)
Pack(pieces, chunks, chunk, max_len) ==
    IF pieces = <<>> THEN [chunks |-> chunks, chunk |-> chunk]
    ELSE IF Len(chunk) + Len(Head(pieces)) > max_len /\ chunk # <<>>
    THEN Pack(Tail(pieces), Append(chunks, chunk), Head(pieces), max_len)
    ELSE Pack(Tail(pieces), chunks, chunk \o Head(pieces), max_len)

\* lines 134-145
_split_text(text, max_len) ==
    LET r == Pack(ReSplit(text), <<>>, <<>>, max_len)
    IN  IF r.chunk # <<>> THEN Append(r.chunks, r.chunk) ELSE r.chunks

\* lines 109-118: the segments of one turn
TurnSegments(turn) ==
    LET text == Strip(turn.text, Whitespace)
        chunks == _split_text(text, SoftLimit)
    IN  IF text = <<>> THEN <<>>
        ELSE IF Len(text) <= SegmentLimit
        THEN <<[text |-> text, speaker |-> turn.speaker]>>
        ELSE [k \in 1..Len(chunks) |-> [text |-> chunks[k], speaker |-> turn.speaker]]

\* lines 108-118: the loop over the turns
RECURSIVE Untrimmed(_)
Untrimmed(ts) ==
    IF ts = <<>> THEN <<>> ELSE TurnSegments(Head(ts)) \o Untrimmed(Tail(ts))

\* line 120: sum(len(t['text']) for t in nlp_texts)
RECURSIVE Total(_)
Total(list) == IF list = <<>> THEN 0 ELSE Len(Head(list).text) + Total(Tail(list))

\* variant: the trimming stops at the total limit, not at the trim limit
RECURSIVE TrimToTotalLimit(_, _, _)
TrimToTotalLimit(list, trimmed, running) ==
    IF list = <<>> THEN trimmed
    ELSE IF running + Len(Head(list).text) > TotalLimit THEN trimmed
    ELSE TrimToTotalLimit(Tail(list), Append(trimmed, Head(list)),
                          running + Len(Head(list).text))

\* lines 123-128: the trimming loop
RECURSIVE Trim(_, _, _)
Trim(list, trimmed, running) ==
    IF list = <<>> THEN trimmed
    ELSE IF running + Len(Head(list).text) > TrimLimit THEN trimmed
    ELSE Trim(Tail(list), Append(trimmed, Head(list)), running + Len(Head(list).text))

\* lines 105-131
build_nlp_texts(ts) ==
    IF Total(Untrimmed(ts)) > TotalLimit
    THEN Trim(Untrimmed(ts), <<>>, 0)
    ELSE Untrimmed(ts)

\* ---- main: lines 340-428 ----

\* SPEAKERS[args.speakers]: the two voices of the chosen pair
spk == [a |-> "voice_a", b |-> "voice_b"]

\* the option of the mutually exclusive group that was given, its value, the
\* file the value names (--text, --raw) and the credentials
Args(app, key, env_app, env_key, o, v, ex, c) ==
    [app_id |-> app, access_key |-> key, VOLC_APP_ID |-> env_app,
     VOLC_ACCESS_KEY |-> env_key, option |-> o, value |-> v, exists |-> ex,
     content |-> c]

WithInput(o, v, ex, c) == Args("id", "key", "", "", o, v, ex, c)

DefaultArgs == WithInput("topic", <<"x">>, FALSE, <<>>)

\* lines 164-170: the connection headers are built once, before the retry loop
headers == [XApiConnectId |-> "uuid4"]

\* lines 172-179: the state at the entry of the retry loop
Fresh ==
    /\ retry_num = RetryBudget
    /\ is_round_end = TRUE
    /\ last_round_id = InitCursor
    /\ current_round = InitRound
    /\ round_count = 0
    /\ task_id = NoTask
    /\ session_id = 0
    /\ retry_info = NoRetry
    /\ podcast_audio = <<>>
    /\ round_audio = <<>>
    /\ ws = <<>>
    /\ sent = <<>>
    /\ sessionStarts = <<>>
    /\ outFile = NoFile
    /\ result = "none"
    /\ nRecv = 0
    /\ nAudio = 0
    /\ connRecv = 0
    /\ lastMsg = NoMsg
    /\ loopExit = "none"
    /\ errRounds = <<>>
    /\ nOk = 0
    /\ ordered = TRUE
    /\ orphanOk = FALSE
    /\ paired = TRUE
    /\ roundOpen = FALSE
    /\ roundBytes = <<>>
    /\ discarded = {}
    /\ connectIds = <<>>
    /\ nlp_texts = <<>>

\* generate_podcast called with a request that main accepted
Init ==
    /\ pc = "while"
    /\ args = DefaultArgs
    /\ turns = <<>>
    /\ Fresh

Range(q) == {q[i] : i \in 1..Len(q)}

\* lines 359-360: a credential of the command line, else the environment's
Credential(given, env) == IF given # "" THEN given ELSE env

\* lines 389-420: the branch of the if/elif chain; an empty value is falsy
Branch(a) == IF a.value = <<>> THEN "none" ELSE a.option

Exit1(t) == [exit |-> TRUE, turns |-> t]
Proceed(t) == [exit |-> FALSE, turns |-> t]

\* lines 362-420: sys.exit(1) or the call of generate_podcast
MainOutcome(a) ==
    LET parsed == parse_podcast_script(a.content, spk.a, spk.b)
    IN  IF \/ Credential(a.app_id, a.VOLC_APP_ID) = ""
           \/ Credential(a.access_key, a.VOLC_ACCESS_KEY) = ""
        THEN Exit1(<<>>)
        ELSE IF Branch(a) = "text"
        THEN IF ~a.exists THEN Exit1(<<>>)
             ELSE IF parsed = <<>> THEN Exit1(parsed)
             ELSE Proceed(parsed)
        ELSE IF Branch(a) = "raw" /\ ~a.exists THEN Exit1(<<>>)
        ELSE Proceed(<<>>)

\* main up to line 427; in the text branch, up to the call of build_nlp_texts
Main ==
    /\ pc = "main"
    /\ LET o == MainOutcome(args)
       IN  /\ turns' = o.turns
           /\ pc' = IF o.exit THEN "done"
                    ELSE IF Branch(args) = "text" THEN "build"
                    ELSE "while"
           /\ result' = IF o.exit THEN "fail" ELSE result
    /\ UNCHANGED <<args, nlp_texts, connectIds, ctx, bufs, hist, conn, outFile>>

\* lines 397-401: nlp_texts = build_nlp_texts(turns), stored in the request
Build ==
    /\ pc = "build"
    /\ nlp_texts' = build_nlp_texts(turns)
    /\ pc' = "while"
    /\ UNCHANGED <<args, turns, connectIds, ctx, bufs, hist, conn, outFile, result>>

\* ---- the connection attempt: lines 184-216 ----

\* variant: the resumed attempt always asks to restart from scratch
ResumeInfoFromScratch(round_end, task, cursor, old) ==
    IF ~round_end /\ task # NoTask
    THEN [retry_task_id |-> task, last_finished_round_id |-> InitCursor,
          present |-> TRUE]
    ELSE old

\* variant: retry_info is written once and never refreshed
ResumeInfoStale(round_end, task, cursor, old) ==
    IF old.present THEN old
    ELSE IF ~round_end /\ task # NoTask
    THEN [retry_task_id |-> task, last_finished_round_id |-> cursor, present |-> TRUE]
    ELSE old

\* lines 188-192: retry_info is (re)written only on a resumed attempt
ResumeInfo(round_end, task, cursor, old) ==
    IF ~round_end /\ task # NoTask
    THEN [retry_task_id |-> task, last_finished_round_id |-> cursor, present |-> TRUE]
    ELSE old

\* line 184-193: loop test, websockets.connect, resumption info
Connect ==
    /\ pc = "while"
    /\ retry_num > 0
    /\ ws' = Append(ws, "open")
    /\ connectIds' = Append(connectIds, headers.XApiConnectId)
    /\ retry_info' = ResumeInfo(is_round_end, task_id, last_round_id, retry_info)
    /\ sent' = <<>>
    /\ loopExit' = "none"
    /\ connRecv' = 0
    /\ roundOpen' = FALSE
    /\ roundBytes' = <<>>
    /\ pc' = "start_connection"
    /\ UNCHANGED <<cli, ctx, bufs, session_id, sessionStarts, outFile, result,
                   nRecv, nAudio, lastMsg, errRounds, nOk, ordered,
                   orphanOk, paired, discarded>>

\* line 196: await start_connection(ws)
StartConnection ==
    /\ pc = "start_connection"
    /\ sent' = Append(sent, "StartConnection")
    /\ pc' = "wait_connection_started"
    /\ UNCHANGED <<cli, connectIds, ctx, bufs, hist, session_id, retry_info, ws, sessionStarts,
                   outFile, result>>

\* variant: task_id follows the session id of every attempt
NextTaskIdAlways(task, session) == session

\* lines 202-203: task_id is taken from the first session id only
NextTaskId(task, session) == IF task = NoTask THEN session ELSE task

\* lines 197-203: ConnectionStarted received, fresh session id, task id
ConnectionStarted ==
    /\ pc = "wait_connection_started"
    /\ session_id' = Len(ws)
    /\ task_id' = NextTaskId(task_id, session_id')
    /\ pc' = "start_session"
    /\ UNCHANGED <<cli, connectIds, retry_num, is_round_end, last_round_id, current_round,
                   round_count, bufs, hist, retry_info, ws, sent, sessionStarts,
                   outFile, result>>

\* line 205: await start_session(ws, json.dumps(req_params), session_id)
StartSession ==
    /\ pc = "start_session"
    /\ sent' = Append(sent, "StartSession")
    /\ sessionStarts' = Append(sessionStarts,
                               [session_id |-> session_id, retry_info |-> retry_info])
    /\ pc' = "wait_session_started"
    /\ UNCHANGED <<cli, connectIds, ctx, bufs, hist, session_id, retry_info, ws, outFile, result>>

\* line 206: SessionStarted received
SessionStarted ==
    /\ pc = "wait_session_started"
    /\ pc' = "finish_session"
    /\ UNCHANGED <<cli, connectIds, ctx, bufs, hist, conn, outFile, result>>

\* variant: the loop is entered without sending session-finish
FinishSessionNotSent ==
    /\ pc = "finish_session"
    /\ round_audio' = <<>>
    /\ pc' = "recv"
    /\ UNCHANGED <<cli, connectIds, ctx, podcast_audio, hist, conn, outFile, result>>

\* lines 210-216: await finish_session(ws, session_id); round_audio = bytearray()
FinishSession ==
    /\ pc = "finish_session"
    /\ sent' = Append(sent, "FinishSession")
    /\ round_audio' = <<>>
    /\ pc' = "recv"
    /\ UNCHANGED <<cli, connectIds, ctx, podcast_audio, hist, session_id, retry_info, ws,
                   sessionStarts, outFile, result>>

\* ---- the streaming loop: lines 218-299 ----

\* the variables one loop iteration reads and writes
LoopState ==
    [round_audio |-> round_audio, podcast_audio |-> podcast_audio,
     current_round |-> current_round, round_count |-> round_count,
     is_round_end |-> is_round_end, last_round_id |-> last_round_id,
     exit |-> "continue"]

\* lines 222-223: audio payload joins the pending buffer
OnAudio(s, msg) == [s EXCEPT !.round_audio = @ \o msg.payload]

\* variant: an error-typed message only leaves the loop
OnErrorBreak(s, msg) == [s EXCEPT !.exit = "break"]

\* lines 232-235: error-typed message, return False
OnError(s, msg) == [s EXCEPT !.exit = "return"]

\* variant: the music rounds are not counted
OnRoundStartSkipMusic(s, msg) ==
    [s EXCEPT !.current_round = msg.round_id,
              !.round_count = IF msg.round_id \in {HeadMusic, TailMusic} THEN @ ELSE @ + 1,
              !.is_round_end = FALSE]

\* lines 239-245: round-start
OnRoundStart(s, msg) ==
    [s EXCEPT !.current_round = msg.round_id,
              !.round_count = @ + 1,
              !.is_round_end = FALSE]

\* variant: the committed buffer is replaced by the pending one
CommitReplace(committed, pending) ==
    IF pending # <<>> THEN pending ELSE committed

\* lines 266-270: commit of the pending buffer
Commit(committed, pending) ==
    IF pending # <<>> THEN committed \o pending ELSE committed

\* variant: the pending buffer is committed on a failed round too
OnRoundEndCommitOnError(s, msg) ==
    IF msg.is_error
    THEN [s EXCEPT !.podcast_audio = Commit(@, s.round_audio), !.exit = "break"]
    ELSE [s EXCEPT !.is_round_end = TRUE,
                   !.last_round_id = s.current_round,
                   !.podcast_audio = Commit(@, s.round_audio),
                   !.round_audio = <<>>]

\* variant: a failed round rewinds the cursor
OnRoundEndResetCursor(s, msg) ==
    IF msg.is_error
    THEN [s EXCEPT !.last_round_id = InitCursor, !.exit = "break"]
    ELSE [s EXCEPT !.is_round_end = TRUE,
                   !.last_round_id = s.current_round,
                   !.podcast_audio = Commit(@, s.round_audio),
                   !.round_audio = <<>>]

\* variant: a successful round without audio is ignored
OnRoundEndSkipEmpty(s, msg) ==
    IF msg.is_error
    THEN [s EXCEPT !.exit = "break"]
    ELSE IF s.round_audio = <<>> THEN s
    ELSE [s EXCEPT !.is_round_end = TRUE,
                   !.last_round_id = s.current_round,
                   !.podcast_audio = Commit(@, s.round_audio),
                   !.round_audio = <<>>]

\* lines 255-270: round-end
OnRoundEnd(s, msg) ==
    IF msg.is_error
    THEN [s EXCEPT !.exit = "break"]
    ELSE [s EXCEPT !.is_round_end = TRUE,
                   !.last_round_id = s.current_round,
                   !.podcast_audio = Commit(@, s.round_audio),
                   !.round_audio = <<>>]

\* variant: podcast-end marks the round as complete
OnFullServerResponseEndCompletes(s, msg) ==
    IF msg.event = "PodcastRoundStart" THEN OnRoundStart(s, msg)
    ELSE IF msg.event = "PodcastRoundEnd" THEN OnRoundEnd(s, msg)
    ELSE IF msg.event = "PodcastEnd" THEN [s EXCEPT !.is_round_end = TRUE]
    ELSE s

\* lines 237-293: dispatch on the event of a full server response
OnFullServerResponse(s, msg) ==
    IF msg.event = "PodcastRoundStart" THEN OnRoundStart(s, msg)
    ELSE IF msg.event = "PodcastRoundEnd" THEN OnRoundEnd(s, msg)
    ELSE s    \* PodcastEnd, UsageResponse: printing only; other events: no branch

\* lines 222-237: dispatch on the message type
Dispatch(s, msg) ==
    IF msg.type = "AudioOnlyServer" /\ msg.event = "PodcastRoundResponse"
    THEN OnAudio(s, msg)
    ELSE IF msg.type = "Error" THEN OnError(s, msg)
    ELSE IF msg.type = "FullServerResponse" THEN OnFullServerResponse(s, msg)
    ELSE s

\* lines 219-299: one iteration, the session-finished test included
LoopBody(s, msg) ==
    LET t == Dispatch(s, msg)
    IN  IF t.exit = "continue" /\ msg.event = "SessionFinished"
        THEN [t EXCEPT !.exit = "break"]
        ELSE t

\* how the loop ended, for the record kept in loopExit
ExitKind(t, msg) ==
    IF t.exit = "continue" THEN "none"
    ELSE IF t.exit = "return" THEN "error_msg"
    ELSE IF msg.event = "PodcastRoundEnd" THEN "round_error"
    ELSE "session_finished"

IsAudio(msg) ==
    msg.type = "AudioOnlyServer" /\ msg.event = "PodcastRoundResponse"
IsRoundStart(msg) ==
    msg.type = "FullServerResponse" /\ msg.event = "PodcastRoundStart"
IsRoundEnd(msg, err) ==
    msg.type = "FullServerResponse" /\ msg.event = "PodcastRoundEnd"
    /\ msg.is_error = err

\* line 219: msg = await receive_message(ws), then the loop body
Receive(msg) ==
    /\ pc = "recv"
    /\ LET t == LoopBody(LoopState, msg)
       IN  /\ round_audio' = t.round_audio
           /\ podcast_audio' = t.podcast_audio
           /\ current_round' = t.current_round
           /\ round_count' = t.round_count
           /\ is_round_end' = t.is_round_end
           /\ last_round_id' = t.last_round_id
           /\ loopExit' = ExitKind(t, msg)
           /\ pc' = IF t.exit = "continue" THEN "recv"
                    ELSE IF t.exit = "break" THEN "finish_connection"
                    ELSE "done"
           /\ result' = IF t.exit = "return" THEN "fail" ELSE result
           /\ discarded' = IF t.exit = "continue" THEN discarded
                           ELSE discarded \cup Range(t.round_audio)
           /\ errRounds' = IF IsRoundEnd(msg, TRUE)
                           THEN Append(errRounds, t.current_round)
                           ELSE errRounds
    /\ nOk' = IF IsRoundEnd(msg, FALSE) THEN nOk + 1 ELSE nOk
    /\ ordered' = IF IsRoundStart(msg)
                  THEN /\ ordered
                       /\ msg.round_id >= InitCursor
                       /\ round_count > 0 => msg.round_id >= current_round
                  ELSE ordered
    /\ orphanOk' = (orphanOk \/ (IsRoundEnd(msg, FALSE) /\ round_count = 0))
    /\ paired' = (paired /\ ((IsRoundEnd(msg, TRUE) \/ IsRoundEnd(msg, FALSE)) => roundOpen))
    /\ roundOpen' = IF IsRoundStart(msg) THEN TRUE
                    ELSE IF IsRoundEnd(msg, TRUE) \/ IsRoundEnd(msg, FALSE) THEN FALSE
                    ELSE roundOpen
    /\ roundBytes' = IF IsRoundStart(msg) THEN <<>>
                     ELSE IF IsRoundEnd(msg, TRUE) \/ IsRoundEnd(msg, FALSE) THEN <<>>
                     ELSE IF IsAudio(msg) /\ roundOpen THEN roundBytes \o msg.payload
                     ELSE roundBytes
    /\ nRecv' = nRecv + 1
    /\ connRecv' = connRecv + 1
    /\ nAudio' = IF msg.type = "AudioOnlyServer" THEN nAudio + 1 ELSE nAudio
    /\ lastMsg' = msg
    /\ UNCHANGED <<cli, connectIds, retry_num, task_id, conn, outFile>>

\* ---- after the loop: lines 301-333 ----

\* line 302: await finish_connection(ws)
FinishConnection ==
    /\ pc = "finish_connection"
    /\ sent' = Append(sent, "FinishConnection")
    /\ pc' = "wait_connection_finished"
    /\ UNCHANGED <<cli, connectIds, ctx, bufs, hist, session_id, retry_info, ws, sessionStarts,
                   outFile, result>>

\* line 303: ConnectionFinished received
ConnectionFinished ==
    /\ pc = "wait_connection_finished"
    /\ pc' = "close"
    /\ UNCHANGED <<cli, connectIds, ctx, bufs, hist, conn, outFile, result>>

\* variant: after a failed attempt the loop neither retries nor ends
AfterAttemptStuck(round_end, budget) ==
    IF round_end
    THEN [pc |-> "save", retry_num |-> budget]
    ELSE [pc |-> "close", retry_num |-> budget]

\* variant: a failed attempt does not consume budget
AfterAttemptNoDecrement(round_end, budget) ==
    IF round_end
    THEN [pc |-> "save", retry_num |-> budget]
    ELSE [pc |-> "sleep", retry_num |-> budget]

\* variant: every attempt is followed by a retry
AfterAttemptAlwaysRetry(round_end, budget) ==
    [pc |-> "sleep", retry_num |-> budget - 1]

\* lines 310-315: leave the retry loop when the last round ended, else retry
AfterAttempt(round_end, budget) ==
    IF round_end
    THEN [pc |-> "save", retry_num |-> budget]
    ELSE [pc |-> "sleep", retry_num |-> budget - 1]

\* variant: the transport is left open before the retry
CloseLeak ==
    /\ pc = "close"
    /\ LET a == AfterAttempt(is_round_end, retry_num)
       IN  /\ pc' = a.pc
           /\ retry_num' = a.retry_num
    /\ UNCHANGED <<cli, connectIds, is_round_end, last_round_id, current_round, round_count,
                   task_id, bufs, hist, conn, outFile, result>>

\* lines 307-314: await ws.close(), then the completeness test
Close ==
    /\ pc = "close"
    /\ ws' = [ws EXCEPT ![Len(ws)] = "closed"]
    /\ LET a == AfterAttempt(is_round_end, retry_num)
       IN  /\ pc' = a.pc
           /\ retry_num' = a.retry_num
    /\ UNCHANGED <<cli, connectIds, is_round_end, last_round_id, current_round, round_count,
                   task_id, bufs, hist, session_id, retry_info, sent,
                   sessionStarts, outFile, result>>

\* line 315: await asyncio.sleep(1)
Sleep ==
    /\ pc = "sleep"
    /\ pc' = "while"
    /\ UNCHANGED <<cli, connectIds, ctx, bufs, hist, conn, outFile, result>>

\* line 184: the loop test fails, control falls through to the save
BudgetExhausted ==
    /\ pc = "while"
    /\ retry_num <= 0
    /\ pc' = "save"
    /\ UNCHANGED <<cli, connectIds, ctx, bufs, hist, conn, outFile, result>>

\* variant: the file is written even when nothing was committed
SaveOutcomeAlwaysWrite(committed) ==
    IF committed # <<>>
    THEN [outFile |-> committed, result |-> "ok"]
    ELSE [outFile |-> committed, result |-> "fail"]

\* lines 324-333: what is written and what is returned
SaveOutcome(committed) ==
    IF committed # <<>>
    THEN [outFile |-> committed, result |-> "ok"]
    ELSE [outFile |-> NoFile, result |-> "fail"]

\* lines 322-333: write the file or report that no audio was received
Save ==
    /\ pc = "save"
    /\ outFile' = SaveOutcome(podcast_audio).outFile
    /\ result' = SaveOutcome(podcast_audio).result
    /\ pc' = "done"
    /\ UNCHANGED <<cli, connectIds, ctx, bufs, hist, conn>>

\* main, lines 427-428: sys.exit(0 if ok else 1)
ExitCode(res) == IF res = "ok" THEN 0 ELSE 1

\* the awaits inside the try block (lines 185-307)
SuspensionPoints ==
    {"while", "start_connection", "wait_connection_started", "start_session",
     "wait_session_started", "finish_session", "recv", "finish_connection",
     "wait_connection_finished", "close"}

\* lines 317-320: any exception of an await is caught outside the retry loop
Raise ==
    /\ pc \in SuspensionPoints
    /\ pc = "while" => retry_num > 0
    /\ pc' = "done"
    /\ result' = "fail"
    /\ loopExit' = "exception"
    /\ discarded' = IF pc = "recv" THEN discarded \cup Range(round_audio)
                    ELSE discarded
    /\ UNCHANGED <<cli, connectIds, ctx, bufs, conn, outFile, nRecv, nAudio, connRecv, lastMsg,
                   errRounds, nOk, ordered, orphanOk, paired, roundOpen,
                   roundBytes>>

\* ---- the service ----

\* Spec: any message may arrive at any receive
FreeMsgs ==
    (IF nAudio < MaxAudio THEN {AudioMsg(<<Chunk(0, nAudio + 1)>>)} ELSE {})
    \cup {ErrorMsg}
    \cup {RoundStartMsg(r) : r \in RoundIds}
    \cup {RoundEndMsg(e) : e \in BOOLEAN}
    \cup {EventMsg(e) : e \in {"PodcastEnd", "UsageResponse", "Other",
                               "SessionFinished"}}

ReceiveAny ==
    /\ nRecv < MaxMsgs
    /\ \E msg \in FreeMsgs : Receive(msg)

Handshake ==
    \/ Connect
    \/ StartConnection
    \/ ConnectionStarted
    \/ StartSession
    \/ SessionStarted
    \/ FinishSession

Teardown ==
    \/ FinishConnection
    \/ ConnectionFinished
    \/ Close
    \/ Sleep
    \/ BudgetExhausted
    \/ Save

Next ==
    \/ Handshake
    \/ ReceiveAny
    \/ Teardown
    \/ Raise

Spec == Init /\ [][Next]_vars

\* SpecResume: a service that streams the rounds 1..NRounds in order, each as
\* round-start, one audio message, round-end; it starts after the cursor of the
\* session-start it was sent, may report any round-end as an error, and sends
\* session-finished after the last round.
ResumeFrom ==
    LET ri == sessionStarts[Len(sessionStarts)].retry_info
    IN  IF ri.present /\ ri.last_finished_round_id >= 1
        THEN ri.last_finished_round_id + 1
        ELSE 1

ScriptRound == ResumeFrom + (connRecv \div 3)

ScriptMsgs ==
    IF ScriptRound > NRounds THEN {EventMsg("SessionFinished")}
    ELSE IF connRecv % 3 = 0 THEN {RoundStartMsg(ScriptRound)}
    ELSE IF connRecv % 3 = 1 THEN {AudioMsg(<<Chunk(ScriptRound, nAudio + 1)>>)}
    ELSE {RoundEndMsg(e) : e \in BOOLEAN}

ReceiveScripted ==
    /\ pc = "recv"
    /\ \E msg \in ScriptMsgs : Receive(msg)

NextResume ==
    \/ Handshake
    \/ ReceiveScripted
    \/ Teardown

SpecResume == Init /\ [][NextResume]_vars

\* SpecMain: main with every kind of command line, followed by generate_podcast
\* against the well-behaved service.
Credentials ==
    {Args(a, k, ea, ek, "topic", <<"x">>, FALSE, <<>>) :
        a \in {"", "id"}, k \in {"", "key"}, ea \in {"", "id"}, ek \in {"", "key"}}

Dialogue == <<"A", ":", " ", "x", "nl", "B", ":", " ", "y">>
Contents == {<<>>, <<" ", "nl">>, <<"x", " ", "y">>, Dialogue}

Inputs ==
    {WithInput(o, v, FALSE, <<>>) :
        o \in {"text", "topic", "url", "raw"}, v \in {<<>>, <<"x">>}}
    \cup {WithInput(o, <<"x">>, TRUE, c) : o \in {"text", "raw"}, c \in Contents}

InitMain ==
    /\ pc = "main"
    /\ args \in Credentials \cup Inputs
    /\ turns = <<>>
    /\ Fresh

NextMain ==
    \/ Main
    \/ Build
    \/ NextResume

SpecMain == InitMain /\ [][NextMain]_vars

\* SpecParse: main on dialogue scripts of at most MaxLines lines.
XS(n) == [i \in 1..n |-> "x"]

ScriptLines ==
    {<<"A", ":", " ", "x">>,
     <<"B", ":", " ", "y">>,
     <<"jia", ":", "x">>,
     <<"yi", " ", "fwcolon", "y">>,
     <<"a", ":", "y">>,
     <<"zhu", "chi", "ren", "B", ":", "y">>,
     <<"T", ":", "x">>,
     <<"T", ":">>,
     <<"lbracket", "U", "rbracket", "y">>,
     <<"*", "U", " ", ":", "x">>,
     <<"*", "*", "V", "*", "*", ":", " ", "x">>,
     <<"x", " ", "y">>,
     <<" ">>,
     XS(MaxTokenLen + 1) \o <<":", "y">>}

RECURSIVE JoinLines(_)
JoinLines(ls) ==
    IF ls = <<>> THEN <<>>
    ELSE IF Len(ls) = 1 THEN Head(ls)
    ELSE Head(ls) \o <<"nl">> \o JoinLines(Tail(ls))

Scripts == {JoinLines(ls) : ls \in UNION {[1..n -> ScriptLines] : n \in 0..MaxLines}}

InitParse ==
    /\ pc = "main"
    /\ args \in {WithInput("text", <<"x">>, TRUE, c) : c \in Scripts}
    /\ turns = <<>>
    /\ Fresh

NextParse ==
    \/ Main
    \/ Build

SpecParse == InitParse /\ [][NextParse]_vars

\* SpecSegment: build_nlp_texts on lists of at most MaxTurns turns.
Sentence(n) == XS(n) \o <<"period">>

RECURSIVE Sentences(_, _)
Sentences(k, n) == IF k = 0 THEN <<>> ELSE Sentence(n) \o Sentences(k - 1, n)

TurnTextSet ==
    {<<" ">>,
     <<"x", "period", "y">>,
     <<" ", "x", " ">>,
     <<"x", "!", "nl", "y", "?">>,
     XS(SegmentLimit),
     XS(SegmentLimit + 1),
     Sentence(150) \o Sentence(150),
     XS(SoftLimit) \o <<"period">> \o XS(30),
     Sentence(278) \o <<"y", "period">> \o XS(30),
     XS(200) \o <<"!", "nl">> \o XS(200) \o <<"quest">>,
     Sentences(20, 250),
     Sentences(19, 250) \o Sentence(199) \o Sentence(250),
     XS(TotalLimit + 1)}

TurnLists ==
    {[k \in 1..Len(f) |-> [speaker |-> IF k % 2 = 1 THEN spk.a ELSE spk.b, text |-> f[k]]] :
        f \in UNION {[1..n -> TurnTextSet] : n \in 0..MaxTurns}}

InitSegment ==
    /\ pc = "build"
    /\ args = WithInput("text", <<"x">>, TRUE, <<>>)
    /\ turns \in TurnLists
    /\ Fresh

NextSegment == Build

SpecSegment == InitSegment /\ [][NextSegment]_vars

\* FairResume: SpecResume in which every await returns: the event loop resumes
\* the coroutine whenever the service has answered, and the scripted service
\* ends every stream with a round-end error or with session-finished.
FairResume == SpecResume /\ WF_vars(NextResume)

\* ---- properties ----

Rounds(buf) == [i \in 1..Len(buf) |-> buf[i].round]

\* C1: resumption scenario (SpecResume).  When the first attempt committed
\* rounds 1..k-1 and got a round-end error for round k (2 <= k <= NRounds) and
\* the second attempt ran to session-finished without error, the second
\* session-start carried last_finished_round_id = k-1 and the final committed
\* buffer (and the file) is the audio of rounds 1..NRounds, in order, once each.
C1_Resumption ==
    (pc = "done" /\ Len(ws) = 2 /\ Len(errRounds) = 1 /\ errRounds[1] >= 2) =>
        /\ sessionStarts[2].retry_info.present
        /\ sessionStarts[2].retry_info.last_finished_round_id = errRounds[1] - 1
        /\ Rounds(podcast_audio) = [i \in 1..NRounds |-> i]
        /\ outFile = podcast_audio

C1_Witness ==
    /\ pc = "done" /\ result = "ok" /\ Len(ws) = 2
    /\ errRounds = <<3>>
    /\ sessionStarts[2].retry_info.last_finished_round_id = 2
    /\ Len(podcast_audio) = NRounds

C3_ExhaustedBudgetFails ==
    (pc = "done" /\ retry_num = 0) => (result = "fail" /\ outFile = NoFile)

\* C4: a transport failure is retried like a round-level error: a run that
\* ended on an exception had no budget left for another attempt.
C4_TransportFailureRetried ==
    (pc = "done" /\ loopExit = "exception") => retry_num <= 1

\* C5: after an error-typed message the run has failed, no file is written,
\* and nothing more is received, opened or written.
C5_ErrorMessageFatal ==
    /\ [](lastMsg.type = "Error" =>
            (pc = "done" /\ result = "fail" /\ outFile = NoFile))
    /\ [][lastMsg.type = "Error" => UNCHANGED <<nRecv, ws, outFile, result>>]_vars

C5_Witness ==
    /\ lastMsg.type = "Error"
    /\ podcast_audio # <<>>
    /\ retry_num > 1

\* C6: at most 5 transports are opened in a run.
C6_AtMostFiveAttempts == Len(ws) <= 5

C6_Witness == Len(ws) = 5 /\ retry_num = 0 /\ pc = "done"

\* C7: the first session-start carries no retry_info; every later one carries
\* retry_info whose last_finished_round_id is the cursor held at the
\* reconnect, which is -1 while no round-end has succeeded.
C7_RetryInfo ==
    [][Len(sessionStarts') = Len(sessionStarts) + 1 =>
        LET n == Len(sessionStarts')
            ri == sessionStarts'[n].retry_info
        IN  IF n = 1 THEN ~ri.present
            ELSE /\ ri.present
                 /\ ri.last_finished_round_id = last_round_id
                 /\ nOk = 0 => ri.last_finished_round_id = InitCursor]_vars

C7_Witness ==
    /\ Len(sessionStarts) >= 3
    /\ ~sessionStarts[1].retry_info.present
    /\ sessionStarts[2].retry_info.last_finished_round_id = InitCursor
    /\ sessionStarts[3].retry_info.last_finished_round_id = 1

\* C8: task_id is the session id of the first attempt and never changes; every
\* resumed session-start carries it, while the session ids differ pairwise.
C8_TaskIdStable ==
    /\ [](\A i \in 1..Len(sessionStarts) :
            /\ task_id = sessionStarts[1].session_id
            /\ i > 1 => sessionStarts[i].retry_info.retry_task_id
                           = sessionStarts[1].session_id
            /\ \A j \in 1..Len(sessionStarts) :
                  i # j => sessionStarts[i].session_id # sessionStarts[j].session_id)
    /\ [][task_id # NoTask => task_id' = task_id]_vars

C8_Witness ==
    /\ Len(sessionStarts) >= 3
    /\ sessionStarts[3].retry_info.retry_task_id = 1
    /\ sessionStarts[3].session_id = 3

\* C9 as claimed: the cursor never decreases, whatever the service sends.
C9_CursorNeverDecreases ==
    [][last_round_id' >= last_round_id]_vars

\* C9 as amended: the cursor changes only at a successful round-end, where it
\* becomes the id of the latest round-start; it never decreases as long as the
\* announced ids are >= -1 and arrive in non-decreasing order and no successful
\* round-end precedes the first round-start.
C9_CursorMonotoneWhenOrdered ==
    /\ [][(ordered' /\ ~orphanOk') => last_round_id' >= last_round_id]_vars
    /\ [][last_round_id' # last_round_id =>
            /\ nRecv' = nRecv + 1
            /\ IsRoundEnd(lastMsg', FALSE)
            /\ last_round_id' = current_round]_vars

C9_Witness ==
    /\ ordered /\ ~orphanOk
    /\ nOk >= 2
    /\ Len(ws) >= 2
    /\ last_round_id = TailMusic

\* C10: a round-end reporting error leaves is_round_complete false, the cursor
\* and the committed buffer unchanged, and ends the streaming loop.
C10_RoundErrorHandling ==
    [][(nRecv' = nRecv + 1 /\ IsRoundEnd(lastMsg', TRUE)) =>
        /\ is_round_end' = FALSE
        /\ last_round_id' = last_round_id
        /\ podcast_audio' = podcast_audio
        /\ pc' # "recv"]_vars

\* the step that handles one streamed message
RecvStep == nRecv' = nRecv + 1

\* C11: a round-end reporting success appends the pending buffer to the
\* committed buffer and empties it, sets the cursor to the id of the round
\* (the id of the latest round-start) and is_round_complete to true; with an
\* empty pending buffer the cursor still advances and the committed buffer
\* stays as it was.
C11_RoundEndSuccess ==
    [][(RecvStep /\ IsRoundEnd(lastMsg', FALSE)) =>
        /\ podcast_audio' = podcast_audio \o round_audio
        /\ round_audio' = <<>>
        /\ last_round_id' = current_round
        /\ is_round_end' = TRUE
        /\ round_audio = <<>> => podcast_audio' = podcast_audio]_vars

C11_Witness ==
    /\ IsRoundEnd(lastMsg, FALSE)
    /\ nOk = 2
    /\ Len(podcast_audio) = 1
    /\ roundBytes = <<>>
    /\ last_round_id = 2
    /\ is_round_end

\* C12: the pending buffer is emptied by every round-start, and what a
\* successful round-end commits is exactly the audio received since that
\* round's round-start (nothing received while no round was open).
C12_PendingResetOnRoundStart ==
    /\ [][(RecvStep /\ IsRoundStart(lastMsg')) => round_audio' = <<>>]_vars
    /\ [][(RecvStep /\ IsRoundEnd(lastMsg', FALSE)) =>
            podcast_audio' = podcast_audio \o roundBytes]_vars

\* C13: the committed buffer only grows by appending, in every step; a file,
\* once written, is the committed buffer at the end of the run.
C13_AppendOnly ==
    /\ [][/\ Len(podcast_audio') >= Len(podcast_audio)
          /\ SubSeq(podcast_audio', 1, Len(podcast_audio)) = podcast_audio]_vars
    /\ [](outFile # NoFile => (pc = "done" /\ outFile = podcast_audio))

C13_Witness ==
    /\ outFile # NoFile
    /\ Len(outFile) = 2
    /\ nOk = 2

HandshakeSent == <<"StartConnection", "StartSession", "FinishSession">>

\* C14: in every attempt connection-start is sent, its acknowledgment awaited,
\* session-start sent, its acknowledgment awaited, session-finish sent, and
\* only then are streamed messages consumed; session-finish is sent once per
\* attempt, before the first streamed message.
C14_HandshakeOrder ==
    /\ pc = "start_connection" => sent = <<>>
    /\ pc \in {"wait_connection_started", "start_session"}
          => sent = SubSeq(HandshakeSent, 1, 1)
    /\ pc \in {"wait_session_started", "finish_session"}
          => sent = SubSeq(HandshakeSent, 1, 2)
    /\ pc = "recv" => sent = HandshakeSent
    /\ connRecv > 0 =>
          /\ Len(sent) >= 3
          /\ SubSeq(sent, 1, 3) = HandshakeSent
          /\ Cardinality({i \in 1..Len(sent) : sent[i] = "FinishSession"}) = 1

C14_Witness ==
    /\ Len(ws) >= 2
    /\ connRecv > 0
    /\ pc = "recv"
    /\ sent = HandshakeSent

\* C15 as claimed: once the loop was left on session-finished, no further
\* connection is opened and the run ends in success.
C15_SessionFinishedSucceeds ==
    /\ [][loopExit = "session_finished" => Len(ws') = Len(ws)]_vars
    /\ []((pc = "done" /\ loopExit = "session_finished") => result = "ok")

\* C15 as amended: when the loop was left on session-finished with
\* is_round_complete true, no further connection is opened and the run ends in
\* success exactly when the committed buffer is not empty (and the teardown
\* raised no exception); with is_round_complete false the attempt is followed
\* by a budget decrement and the retry pause, like a failed round.
C15_SessionFinishedWhenComplete ==
    /\ [][(loopExit = "session_finished" /\ is_round_end)
            => Len(ws') = Len(ws)]_vars
    /\ []((pc = "done" /\ loopExit = "session_finished" /\ is_round_end)
            => (result = "ok" <=> podcast_audio # <<>>))
    /\ [][(loopExit = "session_finished" /\ ~is_round_end /\ pc = "close"
           /\ loopExit' = "session_finished")
            => (retry_num' = retry_num - 1 /\ pc' = "sleep")]_vars

C15_Witness ==
    /\ pc = "done"
    /\ loopExit = "session_finished"
    /\ result = "ok"
    /\ Len(ws) >= 2

\* C16: at the end of a run the exit code is 0 exactly when a file was written,
\* and a written file is never empty; with an empty committed buffer no file
\* is written and the exit code is 1.
C16_SuccessIffFile ==
    pc = "done" =>
        /\ ExitCode(result) = 0 <=> outFile # NoFile
        /\ outFile # NoFile => outFile # <<>>
        /\ podcast_audio = <<>> => (outFile = NoFile /\ ExitCode(result) = 1)

C16_Witness ==
    /\ pc = "done"
    /\ loopExit = "session_finished"
    /\ nOk >= 1
    /\ podcast_audio = <<>>
    /\ result = "fail"

OpenConns == {i \in 1..Len(ws) : ws[i] = "open"}

\* C17: at most one transport is open at any time; a further connection is
\* opened only after connection-finish was sent and acknowledged, the previous
\* transport closed, the budget decremented and the pause taken.
C17_OneConnection ==
    /\ [](Cardinality(OpenConns) <= 1)
    /\ [][Len(ws') > Len(ws) =>
            /\ OpenConns = {}
            /\ pc = "while"
            /\ Len(ws) > 0 =>
                  /\ sent[Len(sent)] = "FinishConnection"
                  /\ retry_num = RetryBudget - Len(ws)]_vars
    /\ [][pc' = "while" => pc \in {"sleep", "while"}]_vars
    /\ [][pc' = "sleep" =>
            \/ pc = "sleep"
            \/ /\ pc = "close"
               /\ ws'[Len(ws')] = "closed"
               /\ retry_num' = retry_num - 1]_vars
    /\ [][pc' = "close" => pc \in {"close", "wait_connection_finished"}]_vars

C17_Witness ==
    /\ Len(ws) >= 3
    /\ ws[1] = "closed"
    /\ ws[2] = "closed"
    /\ ws[3] = "open"
    /\ errRounds # <<>>

\* C19 as stated: the correlation ids of any two connection attempts of a run
\* are distinct.
C19_DistinctConnectIds ==
    \A i, j \in 1..Len(connectIds) : i # j => connectIds[i] # connectIds[j]

MissingCredentials(a) ==
    \/ Credential(a.app_id, a.VOLC_APP_ID) = ""
    \/ Credential(a.access_key, a.VOLC_ACCESS_KEY) = ""

NoMarkers(a) ==
    /\ a.option = "text"
    /\ a.exists
    /\ parse_podcast_script(a.content, spk.a, spk.b) = <<>>

EmptyInput(a) ==
    \/ a.option \in {"topic", "url"} /\ a.value = <<>>
    \/ a.option \in {"text", "raw"} /\ a.exists /\ a.content = <<>>

\* C18 as stated: with a configuration error (missing credential, no speaker
\* marker in the script, empty input) the run fails and no connection is made.
C18_ConfigErrorFailsEarly ==
    (MissingCredentials(args) \/ NoMarkers(args) \/ EmptyInput(args)) =>
        /\ ws = <<>>
        /\ pc = "done" => result = "fail"

\* the non-blank lines of a script, stripped
NonBlank(text) ==
    SelectSeq([i \in 1..Len(Split(text)) |-> Strip(Split(text)[i], Whitespace)],
              LAMBDA l : l # <<>>)

Token(line) == Strip(Match(line).group, MarkerTrim)
IsReservedA(tok) == Upper(tok) \in ReservedA
IsReservedB(tok) == Upper(tok) \in ReservedB
IsFree(tok) == ~IsReservedA(tok) /\ ~IsReservedB(tok)

\* the marker lines, and those of them that open a turn with text
MarkerIdx(ls) == {i \in 1..Len(ls) : Match(ls[i]).ok}
TurnIdx(ls) ==
    {i \in MarkerIdx(ls) :
        \/ Strip(Match(ls[i]).rest, Whitespace) # <<>>
        \/ i < Len(ls) /\ ~Match(ls[i + 1]).ok}
Nth(S, k) == CHOOSE i \in S : Cardinality({j \in S : j < i}) = k - 1

\* the first and the second distinct non-reserved token, <<>> if there is none
FreeIdx(ls) == {i \in MarkerIdx(ls) : IsFree(Token(ls[i]))}
FirstFree(ls) ==
    IF FreeIdx(ls) = {} THEN <<>> ELSE <<Token(ls[Least(FreeIdx(ls))])>>
OtherIdx(ls) == {i \in FreeIdx(ls) : <<Token(ls[i])>> # FirstFree(ls)}
SecondFree(ls) ==
    IF OtherIdx(ls) = {} THEN <<>> ELSE <<Token(ls[Least(OtherIdx(ls))])>>

\* the voices the binding rule allows for a token (a third or later name is
\* not constrained)
Allowed(ls, tok) ==
    IF IsReservedA(tok) THEN {spk.a}
    ELSE IF IsReservedB(tok) THEN {spk.b}
    ELSE IF <<tok>> = FirstFree(ls) THEN {spk.a}
    ELSE IF <<tok>> = SecondFree(ls) THEN {spk.b}
    ELSE {spk.a, spk.b}

\* C20: after parsing, there is one turn per marker line that has text, in the
\* order of the lines; the turn of a reserved marker A has voice 1, of a
\* reserved marker B voice 2, whatever came before; the first distinct
\* non-reserved token has voice 1 and the second voice 2 at every occurrence;
\* the two-line dialogue "A: x / B: y" gives exactly two turns, voice 1 then
\* voice 2.
C20_SpeakerBinding ==
    pc # "main" =>
        LET ls == NonBlank(args.content)
        IN  /\ Len(turns) = Cardinality(TurnIdx(ls))
            /\ \A k \in 1..Len(turns) :
                  turns[k].speaker \in Allowed(ls, Token(ls[Nth(TurnIdx(ls), k)]))
            /\ args.content = Dialogue =>
                  turns = <<[speaker |-> spk.a, text |-> <<"x">>],
                            [speaker |-> spk.b, text |-> <<"y">>]>>

C20_Witness ==
    /\ pc = "while"
    /\ Len(turns) = 3
    /\ LET ls == NonBlank(args.content)
       IN  /\ Len(ls) = 3
           /\ IsReservedB(Token(ls[1]))
           /\ IsFree(Token(ls[2]))
           /\ IsFree(Token(ls[3]))
           /\ Token(ls[2]) # Token(ls[3])
    /\ turns[1].speaker = spk.b
    /\ turns[2].speaker = spk.a
    /\ turns[3].speaker = spk.b

NoWs(s) == SelectSeq(s, LAMBDA c : c \notin Whitespace)

\* what a line says once its marker is taken away
LineContent(line) == IF Match(line).ok THEN Match(line).rest ELSE line

TurnTexts(ts) == Join([k \in 1..Len(ts) |-> ts[k].text])

\* C21 as stated: for a script with at least one marker, the texts of the
\* turns, concatenated in order, are the script without its markers and line
\* separators (blanks not counted): no content of any line is lost.
C21_NoContentLost ==
    (pc # "main" /\ MarkerIdx(NonBlank(args.content)) # {}) =>
        LET ls == NonBlank(args.content)
        IN  NoWs(TurnTexts(turns)) =
                NoWs(Join([i \in 1..Len(ls) |-> LineContent(ls[i])]))

\* C22 as stated: after build_nlp_texts no segment is longer than 300
\* characters.
C22_SegmentAtMost300 ==
    pc = "while" => \A k \in 1..Len(nlp_texts) : Len(nlp_texts[k].text) <= SegmentLimit

IsPrefix(p, q) == Len(p) <= Len(q) /\ SubSeq(q, 1, Len(p)) = p

\* C23: the returned list has at most 10000 characters in total; if the
\* untrimmed list has more than 10000, the returned list is a prefix of it
\* with at most 9800; otherwise it is the untrimmed list.
C23_TotalBounded ==
    pc = "while" =>
        /\ Total(nlp_texts) <= TotalLimit
        /\ Total(Untrimmed(turns)) > TotalLimit =>
              /\ IsPrefix(nlp_texts, Untrimmed(turns))
              /\ Total(nlp_texts) <= TrimLimit
        /\ Total(Untrimmed(turns)) <= TotalLimit => nlp_texts = Untrimmed(turns)

C23_Witness ==
    /\ pc = "while"
    /\ Total(Untrimmed(turns)) > TotalLimit
    /\ nlp_texts # <<>>
    /\ Len(nlp_texts) < Len(Untrimmed(turns))
    /\ Total(nlp_texts) + Len(Untrimmed(turns)[Len(nlp_texts) + 1].text) <= TotalLimit

\* the characters of a list of turns or segments, each with its speaker
RECURSIVE Flatten(_)
Flatten(list) ==
    IF list = <<>> THEN <<>>
    ELSE [i \in 1..Len(Head(list).text) |->
             [speaker |-> Head(list).speaker, char |-> Head(list).text[i]]]
         \o Flatten(Tail(list))

Stripped(ts) ==
    [k \in 1..Len(ts) |-> [speaker |-> ts[k].speaker, text |-> Strip(ts[k].text, Whitespace)]]

\* C24 as stated: the segment texts, concatenated in order, reproduce the text
\* of every turn.
C24_RoundTrip == pc = "while" => Flatten(nlp_texts) = Flatten(turns)

\* C24 amended: the segment texts reproduce the text of every turn without its
\* leading and trailing whitespace when the turns have at most 10000 such
\* characters in total, and a prefix of it otherwise.
C24_RoundTripStripped ==
    pc = "while" =>
        /\ Len(Flatten(Stripped(turns))) <= TotalLimit =>
              Flatten(nlp_texts) = Flatten(Stripped(turns))
        /\ IsPrefix(Flatten(nlp_texts), Flatten(Stripped(turns)))

C24_Witness ==
    /\ pc = "while"
    /\ Len(turns) = 2
    /\ Len(turns[1].text) > SegmentLimit
    /\ Len(turns[2].text) > SegmentLimit
    /\ \E i \in 1..Len(turns[1].text) : turns[1].text[i] \in SentenceEnds
    /\ Len(nlp_texts) >= 4
    /\ Len(Flatten(turns)) <= TotalLimit

\* C25 as stated: two consecutive segments of a turn meet at the end of a
\* sentence, so that no sentence lies in two segments, and a segment longer
\* than 280 characters is one sentence.
C25_SentencesWhole ==
    pc = "while" =>
        /\ \A k \in 1..(Len(nlp_texts) - 1) :
              nlp_texts[k].speaker = nlp_texts[k + 1].speaker =>
                  nlp_texts[k].text[Len(nlp_texts[k].text)] \in SentenceEnds
        /\ \A k \in 1..Len(nlp_texts) :
              Len(nlp_texts[k].text) > SoftLimit =>
                  \A i \in 1..(Len(nlp_texts[k].text) - 1) :
                      nlp_texts[k].text[i] \notin SentenceEnds

\* C30 as stated: if a turn has non-blank text, the segment list is not empty.
C30_NonEmptySegments ==
    (pc = "while" /\ \E k \in 1..Len(turns) : Strip(turns[k].text, Whitespace) # <<>>)
        => nlp_texts # <<>>

\* C26: when every await returns and every stream ends, the run ends with a
\* result, and never opens more than 5 connections.
C26_Terminates ==
    /\ <>(pc = "done" /\ result \in {"ok", "fail"})
    /\ [](Len(ws) <= RetryBudget)

C26_Witness ==
    /\ pc = "done"
    /\ result = "fail"
    /\ Len(ws) = RetryBudget
    /\ Len(errRounds) = RetryBudget

InformationalEvents == {"PodcastEnd", "UsageResponse", "Other"}

\* C27: a received full-server-response event other than round-start,
\* round-end and session-finished changes neither buffer, nor the cursor, the
\* completeness flag, the task id or the budget, and the loop goes on.
C27_InformationalFrame ==
    [][(/\ RecvStep
        /\ lastMsg'.type = "FullServerResponse"
        /\ lastMsg'.event \in InformationalEvents) =>
            /\ UNCHANGED <<podcast_audio, round_audio, last_round_id,
                           is_round_end, task_id, retry_num>>
            /\ pc' = "recv"
            /\ loopExit' = "none"]_vars

C27_Witness ==
    /\ lastMsg.type = "FullServerResponse"
    /\ lastMsg.event = "PodcastEnd"
    /\ pc = "recv"
    /\ ~is_round_end
    /\ round_audio # <<>>
    /\ podcast_audio # <<>>
    /\ Len(ws) >= 2

\* C28 as stated: when the run has ended, every transport it opened is closed.
C28_AllTransportsClosed == pc = "done" => \A i \in 1..Len(ws) : ws[i] = "closed"

\* C29 as stated, second part: the round count is at least the number of
\* committed rounds, and equal to it only if no started round failed or was
\* left unfinished.
C29_CountAtLeastCommitted ==
    /\ round_count >= nOk
    /\ round_count = nOk => (errRounds = <<>> /\ is_round_end)

\* C29 amended: the round count is the number of round-starts received over
\* all attempts, music rounds and failed rounds included; as long as every
\* round-end closes a round started on the same connection, it is at least
\* the number of successful round-ends, and equal to it only if no started
\* round failed or is unfinished.
C29_RoundCount ==
    /\ [][round_count' = round_count +
             (IF RecvStep /\ IsRoundStart(lastMsg') THEN 1 ELSE 0)]_vars
    /\ [](nRecv = 0 => round_count = 0)
    /\ [](paired => round_count >= nOk)
    /\ []((paired /\ round_count = nOk) => (errRounds = <<>> /\ is_round_end))

C29_Witness ==
    /\ Len(ws) >= 2
    /\ paired
    /\ round_count = 3
    /\ nOk = 1
    /\ podcast_audio # <<>>
    /\ errRounds # <<>>
    /\ current_round = TailMusic
====
